---- MODULE Spec2Model ----
(***************************************************************************)
(* A model of python_runner/main.py (PythonRunnerApp): the notebook of     *)
(* tabs, the status line and its restore timer, the JSON session cache,    *)
(* interpreter resolution, and the worker threads that run code or         *)
(* "pip freeze" and hand their result back through GLib.idle_add.          *)
(*                                                                         *)
(* Python strings that are paths are sequences of path components          *)
(* (<<"usr", "bin", "python3">>); the empty string is <<>>.  Texts shown   *)
(* in an output pane are sequences of tokens, "\n" being a token.          *)
(***************************************************************************)
EXTENDS Integers, Sequences, FiniteSets, TLC

\* ------------------------------------------------------------------ bounds
MaxTabs == 2
MaxReqs == 2

VARIABLES
    phase,              \* "running": window shown; "quit": after Gtk.main_quit;
                        \* "crashed": an exception left __init__
    tabs,               \* notebook pages in display order
    cur,                \* notebook.get_current_page(), 1-based; 0 is -1 (no page)
    status,             \* status_label text
    status_timeout_id,  \* self._status_timeout_id; 0 is None
    timers,             \* ids of the GLib timeout sources still pending
    reqs,               \* worker threads: one slot per execution request
    idleq,              \* GLib idle queue: _update_output_view calls posted by workers
    file,               \* contents of the session cache file
    app_settings,       \* self.app_settings
    settings_file,      \* contents of the global settings file
    fs,                 \* what the filesystem and PATH hold for interpreter lookup
    ui_waited,          \* the last step ran on the UI thread and waited for a subprocess
    resolved            \* value returned by the probed get_python_interpreter call

vars == <<phase, tabs, cur, status, status_timeout_id, timers, reqs, idleq,
          file, app_settings, settings_file, fs, ui_waited, resolved>>

\* ------------------------------------------------------- Python/JSON values
\* A JSON value as Python holds it after json.load: a bool, a str, an int
\* or a (non-empty) list.  All share one record shape.
PyBool(b) == [type |-> "bool", b |-> b, s |-> <<>>, n |-> 0]
PyStr(s) == [type |-> "str", b |-> FALSE, s |-> s, n |-> 0]
PyInt(n) == [type |-> "int", b |-> FALSE, s |-> <<>>, n |-> n]
PyList == [type |-> "list", b |-> FALSE, s |-> <<"x">>, n |-> 0]

\* Python truthiness: bool itself, non-empty str, non-zero int, non-empty list.
Truthy(v) ==
    CASE v.type = "bool" -> v.b
      [] v.type = "str" -> v.s # <<>>
      [] v.type = "int" -> v.n # 0
      [] OTHER -> TRUE

\* extra: the dict holds a key other than the two known ones.
DEFAULT_VENV_SETTINGS ==
    [use_custom_venv |-> PyBool(FALSE), venv_folder |-> PyStr(<<>>), extra |-> FALSE]

\* ------------------------------------------------------------ filesystem
SysPython3 == <<"usr", "bin", "python3">>
SysPython == <<"usr", "bin", "python">>
VenvA == <<"venvA">>            \* a venv with bin/python3
VenvB == <<"venvB">>            \* a venv with bin/python only
VenvEmpty == <<"emptydir">>     \* a directory without bin/python3, bin/python
Nonexistent == <<"nonexistent">>
VenvOdd == <<"home", "Not Found", "venv">>   \* a venv with bin/python3

FsDirs == {VenvA, VenvB, VenvEmpty, VenvOdd}
FsExecs == {VenvA \o <<"bin", "python3">>, VenvB \o <<"bin", "python">>,
            VenvOdd \o <<"bin", "python3">>}

\* which3 / which: shutil.which("python3") / shutil.which("python"); <<>> is None.
FsConfigs ==
    { [dirs |-> FsDirs, execs |-> FsExecs, which3 |-> SysPython3, which |-> SysPython],
      [dirs |-> FsDirs, execs |-> FsExecs, which3 |-> <<>>, which |-> SysPython],
      [dirs |-> FsDirs, execs |-> FsExecs, which3 |-> <<>>, which |-> <<>>] }

\* ------------------------------------------------- interpreter resolution
MarkerNoActiveTab == <<"Warning: No active tab">>
MarkerNoPython == <<"Warning: No Python found">>

Returned(p) == [raised |-> FALSE, val |-> p]
RaisedTypeError == [raised |-> TRUE, val |-> <<>>]
NotCalled == [raised |-> FALSE, val |-> <<"not called">>]

\* is_executable_file: os.path.isfile(p) and os.access(p, os.X_OK)
is_executable_file(f, p) == p \in f.execs

\* The fallback of get_python_interpreter: python3 on PATH, then python,
\* then the marker string.
system_python(f) ==
    IF f.which3 # <<>> THEN f.which3
    ELSE IF f.which # <<>> THEN f.which
    ELSE MarkerNoPython

\* get_python_interpreter for the notebook ts with current page c.
\* os.path.isdir catches OSError and ValueError only: for a venv_folder that
\* is not a str (a list out of the cache file) os.stat raises TypeError.
get_python_interpreter(ts, c, f) ==
    IF c = 0 THEN Returned(MarkerNoActiveTab)
    ELSE LET use_custom_venv == ts[c].venv_settings.use_custom_venv
             venv_folder == ts[c].venv_settings.venv_folder
             python3_executable == venv_folder.s \o <<"bin", "python3">>
             python_executable == venv_folder.s \o <<"bin", "python">>
         IN  IF Truthy(use_custom_venv) /\ Truthy(venv_folder)
             THEN IF venv_folder.type # "str" THEN RaisedTypeError
                  ELSE IF venv_folder.s \in f.dirs
                  THEN IF is_executable_file(f, python3_executable)
                       THEN Returned(python3_executable)
                       ELSE IF is_executable_file(f, python_executable)
                       THEN Returned(python_executable)
                       ELSE Returned(system_python(f))
                  ELSE Returned(system_python(f))
             ELSE Returned(system_python(f))

\* ------------------------------------------------------------------ tabs
\* w: identity of the tab's widgets (Paned, code_input, output_buffer);
\* label: N of the "Tab N" label; code: code_buffer text; output: output_buffer text.
Tab(w, label, code, settings) ==
    [w |-> w, label |-> label, code |-> code, venv_settings |-> settings,
     output |-> <<>>]

Min(S) == CHOOSE i \in S : \A j \in S : i <= j

\* What a worker thread holds of its child: process.returncode, stdout_data
\* and stderr_data.  NoChild: communicate() has not returned.
NoChild == [rc |-> -1, out |-> <<>>, err |-> <<>>]
FreeSlot == [pc |-> "free", kind |-> "run", interp |-> <<>>, origin |-> 0,
             proc |-> "none", desc |-> "none", child |-> NoChild,
             output |-> <<>>, error |-> <<>>, success |-> FALSE, outcome |-> "none"]

\* Widgets a live Python reference still points to: the notebook's pages and
\* the arguments held by worker threads and posted callbacks.
WidgetsInUse(ts) ==
    {ts[i].w : i \in 1..Len(ts)} \cup
    {reqs[r].origin : r \in {q \in DOMAIN reqs : reqs[q].pc \notin {"free", "delivered"}}}

\* Identity of a newly constructed widget: distinct from every live one.
FreshWidget(ts) ==
    Min({i \in 1..(Cardinality(WidgetsInUse(ts)) + 1) : i \notin WidgetsInUse(ts)})

\* ----------------------------------------------------------- status line
\* The part of the window the status helpers read and write:
\* [status, tid (_status_timeout_id), timers, waited (a subprocess was awaited)].
MsgReady == <<"Ready">>
MsgNoTabs == <<"No tabs open. Press Ctrl+N for a new tab.">>
MsgTabRemoved == <<"Tab removed.">>
MsgNoTabSelected == <<"No tab selected to remove.">>
MsgNewTab == <<"New Tab Added">>
MsgLoaded == <<"Code loaded from cache.">>
MsgLoadError == <<"Error loading code from cache.">>
MsgNoActiveTab == <<"No active tab found.">>
MsgNothingToRun == <<"Nothing to run.">>
MsgSettingsApplied == <<"Settings applied.">>
MsgSettingsUnchanged == <<"Settings unchanged.">>
MsgSettingsCancelled == <<"Settings cancelled.">>

\* str.startswith("Warning:") on a path: decided by its first component.
WarningPrefixed == {"Warning: No active tab", "Warning: No Python found"}
StartsWithWarning(p) == p # <<>> /\ p[1] \in WarningPrefixed

\* GLib.timeout_add returns the id of a new source.
FreshTimer(T) == Min({i \in 1..(Cardinality(T) + 1) : i \notin T})

\* GLib.source_remove(self._status_timeout_id); self._status_timeout_id = None
cancel_status_timeout(u) ==
    IF u.tid # 0 THEN [u EXCEPT !.timers = @ \ {u.tid}, !.tid = 0] ELSE u

set_status_message(u, text, temporary) ==
    LET u1 == [cancel_status_timeout(u) EXCEPT !.status = text]
        id == FreshTimer(u1.timers)
    IN  IF temporary THEN [u1 EXCEPT !.tid = id, !.timers = @ \cup {id}] ELSE u1

env_raises(ts, c) == get_python_interpreter(ts, c, fs).raised

\* update_python_env_status when get_python_interpreter returns: the version
\* probe (subprocess.run, timeout 2 s) runs unless the value is a marker; the
\* label is written unless a temporary message is showing.  The version text
\* is the token "(version)".
update_python_env_status(u, ts, c) ==
    LET python_interpreter == get_python_interpreter(ts, c, fs).val
        warn == StartsWithWarning(python_interpreter)
        status_text == IF warn THEN <<"Python Env: ">> \o python_interpreter
                       ELSE python_interpreter \o <<"(version)">>
        u1 == [u EXCEPT !.waited = @ \/ ~warn]
    IN  IF u.tid = 0 THEN [u1 EXCEPT !.status = status_text] ELSE u1

\* The same call inside a signal or source callback: an exception is printed
\* by the binding and the callback ends there.
callback_update_env(u, ts, c) ==
    IF env_raises(ts, c) THEN u ELSE update_python_env_status(u, ts, c)

\* on_tab_switched runs before the notebook's own switch-page handler, so
\* get_current_page() still gives the page c that was current before.
on_tab_switched(u, ts, c) == callback_update_env(cancel_status_timeout(u), ts, c)

\* on_page_removed with c the current page after the removal.
on_page_removed(u, ts, c) ==
    IF c # 0 THEN callback_update_env(u, ts, c)
    ELSE [cancel_status_timeout(u) EXCEPT !.status = MsgNoTabs]

\* A variant without the early return for a cleared timeout id.
restore_status_always(u, ts, c) == callback_update_env([u EXCEPT !.tid = 0], ts, c)

\* _restore_default_status: nothing is done when no timeout id is stored.
restore_default_status(u, ts, c) ==
    IF u.tid = 0 THEN u ELSE callback_update_env([u EXCEPT !.tid = 0], ts, c)

\* ------------------------------------------------------- tab construction
\* _add_tab_with_content: append_page / set_current_page emit switch-page once
\* (the handler sees the old current page c), then update_python_env_status
\* is called for the new page.  exc: a TypeError left the method.
add_tab_with_content(ts, c, u, code, settings) ==
    LET ts1 == Append(ts, Tab(FreshWidget(ts), Len(ts) + 1, code, settings))
        new == Len(ts1)
        u1 == on_tab_switched(u, ts1, c)
    IN  IF env_raises(ts1, new)
        THEN [tabs |-> ts1, cur |-> new, u |-> u1, exc |-> TRUE]
        ELSE [tabs |-> ts1, cur |-> new,
              u |-> update_python_env_status(u1, ts1, new), exc |-> FALSE]

\* _add_new_tab(add_empty=True, inherit_settings=True)
add_new_tab(ts, c, u) ==
    add_tab_with_content(ts, c, u, <<>>,
        IF c # 0 THEN ts[c].venv_settings ELSE DEFAULT_VENV_SETTINGS)

\* ----------------------------------------------------- session cache file
\* The cache file: missing, unreadable (open or read raises), not JSON
\* ("badjson": also a truncated write), JSON that is no list, or a JSON list.
\* A list element: isdict (a JSON object or not), its "code" value if present,
\* and its "venv_settings" value if present (vs.isdict: an object or not).
NoFile == [kind |-> "missing", elems |-> <<>>]
UnreadableFile == [kind |-> "unreadable", elems |-> <<>>]
BadJsonFile == [kind |-> "badjson", elems |-> <<>>]
NonListFile == [kind |-> "nonlist", elems |-> <<>>]
ListFile(elems) == [kind |-> "list", elems |-> elems]

VsJson(settings) ==
    [isdict |-> TRUE, has_use |-> TRUE, has_folder |-> TRUE,
     use |-> settings.use_custom_venv, folder |-> settings.venv_folder,
     extra |-> settings.extra]

\* What _save_code_to_cache appends for one page:
\* {"code": code, "venv_settings": venv_settings}
TabElem(t) ==
    [isdict |-> TRUE, has_code |-> TRUE, code |-> PyStr(t.code),
     has_vs |-> TRUE, vs |-> VsJson(t.venv_settings)]

\* tabs_data of _save_code_to_cache, as json.dump writes it.
tabs_data(ts) == ListFile([i \in 1..Len(ts) |-> TabElem(ts[i])])

\* Outcome of the write in _save_code_to_cache / _save_app_settings:
\* "ok"; "open_failed": makedirs or open raised, the file is as before;
\* "write_failed": open(path, "w") truncated the file, json.dump raised midway.
SaveOutcomes == {"ok", "open_failed", "write_failed"}

save_code_to_cache(ts, old, io) ==
    CASE io = "ok" -> tabs_data(ts)
      [] io = "open_failed" -> old
      [] OTHER -> BadJsonFile

\* The venv_settings _load_code_from_cache passes on for element e.
loaded_venv_settings(e) ==
    IF ~e.has_vs THEN DEFAULT_VENV_SETTINGS
    ELSE IF ~e.vs.isdict \/ ~e.vs.has_use \/ ~e.vs.has_folder
    THEN DEFAULT_VENV_SETTINGS
    ELSE [use_custom_venv |-> e.vs.use, venv_folder |-> e.vs.folder,
          extra |-> e.vs.extra]

\* code_buffer.set_text(code or "", -1) raises TypeError for a truthy non-str.
code_raises(e) == e.has_code /\ Truthy(e.code) /\ e.code.type # "str"
loaded_code(e) == IF e.has_code /\ Truthy(e.code) THEN e.code.s ELSE <<>>

\* One iteration of the for loop of _load_code_from_cache, from the notebook
\* state st.  tab_data.get raises AttributeError for an element that is no
\* dict.  After an exception (st.exc) no iteration runs.
load_tab(st, e) ==
    IF st.exc THEN st
    ELSE IF ~e.isdict \/ code_raises(e) THEN [st EXCEPT !.exc = TRUE]
    ELSE add_tab_with_content(st.tabs, st.cur, st.u,
                              loaded_code(e), loaded_venv_settings(e))

\* The whole loop over the elements of the list, on an empty notebook.
load_tabs(elems, u) ==
    LET st[i \in 0..Len(elems)] ==
            IF i = 0 THEN [tabs |-> <<>>, cur |-> 0, u |-> u, exc |-> FALSE]
            ELSE load_tab(st[i - 1], elems[i])
    IN  st[Len(elems)]

\* The end of _load_code_from_cache once the loop over a non-empty list has
\* left the notebook in state st: set_current_page(0) and the "loaded"
\* message, or the except branch.
after_load_tabs(st) ==
    IF st.exc
    THEN [loaded |-> FALSE, tabs |-> st.tabs, cur |-> st.cur,
          u |-> set_status_message(st.u, MsgLoadError, TRUE)]
    ELSE [loaded |-> TRUE, tabs |-> st.tabs, cur |-> 1,
          u |-> IF st.cur # 1
                THEN on_tab_switched(set_status_message(st.u, MsgLoaded, TRUE),
                                     st.tabs, st.cur)
                ELSE set_status_message(st.u, MsgLoaded, TRUE)]

\* _load_code_from_cache on an empty notebook: [loaded, tabs, cur, u].
load_code_from_cache(f, u) ==
    LET none == [loaded |-> FALSE, tabs |-> <<>>, cur |-> 0, u |-> u]
    IN  CASE f.kind = "missing" -> none
          [] f.kind = "unreadable" ->
                [none EXCEPT !.u = set_status_message(u, MsgLoadError, TRUE)]
          [] f.kind \in {"badjson", "nonlist"} -> none
          [] OTHER ->
                IF f.elems = <<>> THEN none
                ELSE after_load_tabs(load_tabs(f.elems, u))

\* --------------------------------------------------- global settings file
DEFAULT_APP_SETTINGS ==
    [draw_whitespaces |-> PyBool(FALSE), tab_size |-> PyInt(4),
     translate_tabs |-> PyBool(TRUE), color_scheme_id |-> PyStr(<<"oblivion">>)]

SettingKeys == {"draw_whitespaces", "tab_size", "translate_tabs", "color_scheme_id"}

\* The settings file: kind as for the cache file ("nondict": JSON that is no
\* object); for an object, the keys it has and their values.
NoSettingsFile == [kind |-> "missing", has |-> {}, vals |-> DEFAULT_APP_SETTINGS]
BadSettingsFile == [kind |-> "badjson", has |-> {}, vals |-> DEFAULT_APP_SETTINGS]
SettingsDoc(settings) == [kind |-> "dict", has |-> SettingKeys, vals |-> settings]

save_app_settings(settings, old, io) ==
    CASE io = "ok" -> SettingsDoc(settings)
      [] io = "open_failed" -> old
      [] OTHER -> BadSettingsFile

\* isinstance(loaded_value, type(default_value)); bool is a subclass of int.
isinstance_of_default(v, d) ==
    \/ v.type = d.type
    \/ d.type = "int" /\ v.type = "bool"

merged_app_settings(sf) ==
    [k \in SettingKeys |->
        IF k \in sf.has /\ isinstance_of_default(sf.vals[k], DEFAULT_APP_SETTINGS[k])
        THEN sf.vals[k] ELSE DEFAULT_APP_SETTINGS[k]]

\* _load_app_settings: [settings, file].  A missing file, invalid JSON or a
\* non-dict document gives the defaults and an attempt to write them (io);
\* a read error gives the defaults; a dict is merged key by key.
load_app_settings(sf, io) ==
    CASE sf.kind \in {"missing", "badjson", "nondict"} ->
            [settings |-> DEFAULT_APP_SETTINGS,
             file |-> save_app_settings(DEFAULT_APP_SETTINGS, sf, io)]
      [] sf.kind = "unreadable" ->
            [settings |-> DEFAULT_APP_SETTINGS, file |-> sf]
      [] OTHER -> [settings |-> merged_app_settings(sf), file |-> sf]

\* ------------------------------------------------------------- UI thread
\* Each action below is one handler run to completion on the GTK main loop.
U == [status |-> status, tid |-> status_timeout_id, timers |-> timers,
      waited |-> FALSE]

SetU(u) ==
    /\ status' = u.status
    /\ status_timeout_id' = u.tid
    /\ timers' = u.timers
    /\ ui_waited' = u.waited

NoRequests == [r \in 1..MaxReqs |-> FreeSlot]

\* __init__ after _load_code_from_cache returned L: a default tab is added
\* unless tabs were loaded.
init_tabs(L) ==
    IF L.loaded THEN [tabs |-> L.tabs, cur |-> L.cur, u |-> L.u, exc |-> FALSE]
    ELSE add_new_tab(L.tabs, L.cur, L.u)

\* The end of __init__: the final update_python_env_status, with S the loaded
\* settings and A the notebook.  An exception leaving __init__ means no
\* window ("crashed").
init_window(S, A) ==
    /\ phase' = IF A.exc \/ env_raises(A.tabs, A.cur) THEN "crashed" ELSE "running"
    /\ tabs' = A.tabs
    /\ cur' = A.cur
    /\ SetU(IF A.exc \/ env_raises(A.tabs, A.cur) THEN A.u
            ELSE update_python_env_status(A.u, A.tabs, A.cur))
    /\ app_settings' = S.settings
    /\ settings_file' = S.file

\* PythonRunnerApp.__init__ in a new process: settings, cache, default tab,
\* status.
Startup(io) ==
    /\ phase \in {"off", "quit"}
    /\ init_window(load_app_settings(settings_file, io),
                   init_tabs(load_code_from_cache(file,
                       [status |-> MsgReady, tid |-> 0, timers |-> {},
                        waited |-> FALSE])))
    /\ UNCHANGED <<reqs, idleq, file, fs, resolved>>

\* on_destroy without the try blocks of the two save functions: the
\* exception of a failed write leaves the handler before Gtk.main_quit().
on_destroy_unguarded(io1, io2) ==
    /\ phase = "running"
    /\ file' = save_code_to_cache(tabs, file, io1)
    /\ settings_file' = IF io1 = "ok"
                        THEN save_app_settings(app_settings, settings_file, io2)
                        ELSE settings_file
    /\ phase' = IF io1 = "ok" /\ io2 = "ok" THEN "quit" ELSE "running"
    /\ UNCHANGED <<tabs, cur, status, status_timeout_id, timers, reqs, idleq,
                   app_settings, fs, ui_waited, resolved>>

\* on_destroy: save the cache, save the settings, Gtk.main_quit().  The
\* process ends: its timers, threads and queued callbacks are gone.  tabs
\* keeps the pages as they were saved.
on_destroy(io1, io2) ==
    /\ phase = "running"
    /\ file' = save_code_to_cache(tabs, file, io1)
    /\ settings_file' = save_app_settings(app_settings, settings_file, io2)
    /\ phase' = "quit"
    /\ reqs' = NoRequests
    /\ idleq' = <<>>
    /\ SetU([status |-> status, tid |-> 0, timers |-> {}, waited |-> FALSE])
    /\ UNCHANGED <<tabs, cur, app_settings, fs, resolved>>

\* on_new_tab_clicked (Ctrl+N).  A TypeError out of _add_new_tab ends the
\* handler before the status message.
on_new_tab_clicked ==
    /\ phase = "running"
    /\ Len(tabs) < MaxTabs
    /\ LET A == add_new_tab(tabs, cur, U)
       IN  /\ tabs' = A.tabs
           /\ cur' = A.cur
           /\ SetU(IF A.exc THEN A.u ELSE set_status_message(A.u, MsgNewTab, TRUE))
    /\ UNCHANGED <<phase, reqs, idleq, file, app_settings, settings_file, fs, resolved>>

\* A variant that keeps the only page.
remove_page_keep_last(ts, c) ==
    IF Len(ts) = 1 THEN ts
    ELSE [i \in 1..(Len(ts) - 1) |-> IF i < c THEN ts[i] ELSE ts[i + 1]]

\* Removal of the first page, whichever page is current.
remove_page_first(ts, c) == [i \in 1..(Len(ts) - 1) |-> ts[i + 1]]

\* The pages left when page c is removed.
remove_page(ts, c) == [i \in 1..(Len(ts) - 1) |-> IF i < c THEN ts[i] ELSE ts[i + 1]]

\* on_remove_tab_clicked (Ctrl+W).  Removing the current page makes the
\* notebook switch to the next page, or else the previous one: switch-page is
\* emitted while there is no current page, then page-removed.
on_remove_tab_clicked ==
    /\ phase = "running"
    /\ IF cur # 0
       THEN LET ts1 == remove_page(tabs, cur)
                next == IF cur <= Len(ts1) THEN cur ELSE cur - 1
                u1 == IF next # 0 THEN on_tab_switched(U, ts1, 0) ELSE U
                u2 == on_page_removed(u1, ts1, next)
            IN  /\ tabs' = ts1
                /\ cur' = next
                /\ SetU(set_status_message(u2, MsgTabRemoved, TRUE))
       ELSE /\ SetU(set_status_message(U, MsgNoTabSelected, TRUE))
            /\ UNCHANGED <<tabs, cur>>
    /\ UNCHANGED <<phase, reqs, idleq, file, app_settings, settings_file, fs, resolved>>

\* The user selects page i: switch-page, on_tab_switched.
switch_page(i) ==
    /\ phase = "running"
    /\ i \in 1..Len(tabs)
    /\ i # cur
    /\ SetU(on_tab_switched(U, tabs, cur))
    /\ cur' = i
    /\ UNCHANGED <<phase, tabs, reqs, idleq, file, app_settings, settings_file, fs,
                   resolved>>

\* The user edits the current tab's code buffer.
CodeValues == {<<>>, <<"print(1)">>}
edit_code(c) ==
    /\ phase = "running"
    /\ cur # 0
    /\ tabs[cur].code # c
    /\ tabs' = [tabs EXCEPT ![cur].code = c]
    /\ ui_waited' = FALSE
    /\ UNCHANGED <<phase, cur, status, status_timeout_id, timers, reqs, idleq, file,
                   app_settings, settings_file, fs, resolved>>

\* A status timeout source fires: _restore_default_status, SOURCE_REMOVE.
timeout_fires(id) ==
    /\ phase = "running"
    /\ id \in timers
    /\ SetU(restore_default_status([U EXCEPT !.timers = @ \ {id}], tabs, cur))
    /\ UNCHANGED <<phase, tabs, cur, reqs, idleq, file, app_settings, settings_file,
                   fs, resolved>>

\* ---------------------------------------------------------- settings dialog
\* Python's == between two JSON values: bool and int compare as numbers.
py_num(v) == IF v.type = "bool" THEN (IF v.b THEN 1 ELSE 0) ELSE v.n
py_eq(a, b) ==
    \/ a = b
    \/ a.type \in {"bool", "int"} /\ b.type \in {"bool", "int"} /\ py_num(a) = py_num(b)

\* What the user may leave in the dialog's venv widgets.
DialogVenvChoices == {[use |-> FALSE, path |-> <<>>], [use |-> TRUE, path |-> VenvA],
                      [use |-> TRUE, path |-> <<>>]}

\* The dialog is built from the current tab's settings; Gtk.Entry(text=...)
\* raises TypeError for a venv_folder that is no str, and no dialog appears.
dialog_opens == cur # 0 => tabs[cur].venv_settings.venv_folder.type = "str"

\* The venv_settings of the current page after _apply_changes.
applied_venv_settings(old, new_use_custom, new_venv_path) ==
    [use_custom_venv |-> IF py_eq(old.use_custom_venv, PyBool(new_use_custom))
                         THEN old.use_custom_venv ELSE PyBool(new_use_custom),
     venv_folder |-> IF py_eq(old.venv_folder, PyStr(new_venv_path))
                     THEN old.venv_folder ELSE PyStr(new_venv_path),
     extra |-> old.extra]

\* A commit on tabs that all share one settings dict: the write shows in
\* every tab.
settings_apply_shared(new_use_custom, new_venv_path, new_tab_size, io) ==
    /\ phase = "running"
    /\ dialog_opens
    /\ cur # 0
    /\ tabs' = [i \in 1..Len(tabs) |->
                   [tabs[i] EXCEPT !.venv_settings =
                       applied_venv_settings(tabs[cur].venv_settings,
                                             new_use_custom, new_venv_path)]]
    /\ SetU(set_status_message(U, MsgSettingsApplied, TRUE))
    /\ UNCHANGED <<phase, cur, reqs, idleq, file, app_settings, settings_file,
                   fs, resolved>>

\* The dialog closed with OK, or Apply pressed: _apply_changes with the
\* widgets holding new_use_custom, new_venv_path, new_tab_size; io is the
\* outcome of _save_app_settings if it is called.
settings_apply(new_use_custom, new_venv_path, new_tab_size, io) ==
    /\ phase = "running"
    /\ dialog_opens
    /\ LET settings_changed == ~py_eq(app_settings.tab_size, PyInt(new_tab_size))
           ts1 == IF cur = 0 THEN tabs
                  ELSE [tabs EXCEPT ![cur].venv_settings =
                           applied_venv_settings(@, new_use_custom, new_venv_path)]
           tab_settings_changed == ts1 # tabs
           u1 == IF tab_settings_changed
                 THEN update_python_env_status(U, ts1, cur) ELSE U
       IN  /\ tabs' = ts1
           /\ app_settings' = IF settings_changed
                              THEN [app_settings EXCEPT !.tab_size = PyInt(new_tab_size)]
                              ELSE app_settings
           /\ settings_file' = IF settings_changed
                               THEN save_app_settings(app_settings', settings_file, io)
                               ELSE settings_file
           /\ SetU(set_status_message(u1,
                      IF settings_changed \/ tab_settings_changed
                      THEN MsgSettingsApplied ELSE MsgSettingsUnchanged, TRUE))
    /\ UNCHANGED <<phase, cur, reqs, idleq, file, fs, resolved>>

\* A Cancel that writes the dialog's switch into the tab all the same.
settings_cancel_applies ==
    /\ phase = "running"
    /\ dialog_opens
    /\ cur # 0
    /\ tabs' = [tabs EXCEPT ![cur].venv_settings.use_custom_venv =
                   PyBool(~Truthy(@))]
    /\ SetU(set_status_message(update_python_env_status(U, tabs, cur),
                               MsgSettingsCancelled, TRUE))
    /\ UNCHANGED <<phase, cur, reqs, idleq, file, app_settings, settings_file,
                   fs, resolved>>

\* The dialog closed with Cancel or by the window manager.
settings_cancel ==
    /\ phase = "running"
    /\ dialog_opens
    /\ SetU(set_status_message(update_python_env_status(U, tabs, cur),
                               MsgSettingsCancelled, TRUE))
    /\ UNCHANGED <<phase, tabs, cur, reqs, idleq, file, app_settings, settings_file,
                   fs, resolved>>

\* ------------------------------------------------------ running code
\* str.strip() of a text is empty: every token is whitespace.
IsBlank(text) == \A i \in 1..Len(text) : text[i] \in {"\n", " "}

\* on_run_clicked's test of the interpreter string: one of the substrings
\* "Warning:", "Not Found", "No active tab" occurs in it.
\* The path components that contain one of them.
RunMarkerWords == {"Warning: No active tab", "Warning: No Python found", "Not Found"}
HasRunMarker(p) == \E i \in 1..Len(p) : p[i] \in RunMarkerWords

\* os.path.basename
basename(p) == IF p = <<>> THEN <<>> ELSE <<p[Len(p)]>>

ErrInvalidInterpreter(p) == <<"Error: Invalid Python interpreter selected">> \o p
ErrPipInvalidInterpreter(p) == <<"Error: Cannot run pip freeze, invalid Python interpreter">> \o p
PipInvalidText(p) ==
    <<"Error: Invalid Python interpreter selected:", "\n">> \o p \o <<"\n", "\n", "Please check the settings">>
MsgRunningPip(p) == <<"Running pip freeze with">> \o basename(p)
PipRunningText == <<"Running pip freeze...", "\n">>

FreeSlots == {r \in DOMAIN reqs : reqs[r].pc = "free"}

\* threading.Thread(...).start(): the thread takes the lowest free slot.
start_thread(kind, interp, origin) ==
    reqs' = [reqs EXCEPT ![Min(FreeSlots)] =
                [FreeSlot EXCEPT !.pc = "started", !.kind = kind, !.interp = interp,
                                 !.origin = origin]]

\* A variant that writes into the active tab's buffer instead.
set_output_active(ts, w, text) ==
    [i \in 1..Len(ts) |-> IF i = cur THEN [ts[i] EXCEPT !.output = text] ELSE ts[i]]

\* A variant that writes into the first tab's buffer.
set_output_first(ts, w, text) ==
    [i \in 1..Len(ts) |-> IF i = 1 THEN [ts[i] EXCEPT !.output = text] ELSE ts[i]]

\* A variant that appends to what the buffer holds.
set_output_append(ts, w, text) ==
    [i \in 1..Len(ts) |-> IF ts[i].w = w THEN [ts[i] EXCEPT !.output = @ \o text]
                          ELSE ts[i]]

\* output_buffer.set_text(text) on the buffer of the tab with widgets w; a
\* buffer whose page was removed is not shown anywhere.
set_output(ts, w, text) ==
    [i \in 1..Len(ts) |-> IF ts[i].w = w THEN [ts[i] EXCEPT !.output = text] ELSE ts[i]]

\* on_run_clicked (Ctrl+R).  An exception out of get_python_interpreter ends
\* the handler.
on_run_clicked ==
    /\ phase = "running"
    /\ FreeSlots # {}
    /\ IF cur = 0
       THEN /\ SetU(set_status_message(U, MsgNoActiveTab, TRUE))
            /\ UNCHANGED <<tabs, reqs>>
       ELSE IF IsBlank(tabs[cur].code)
       THEN /\ SetU(set_status_message(U, MsgNothingToRun, TRUE))
            /\ UNCHANGED <<tabs, reqs>>
       ELSE IF env_raises(tabs, cur)
       THEN /\ SetU(U)
            /\ UNCHANGED <<tabs, reqs>>
       ELSE IF HasRunMarker(get_python_interpreter(tabs, cur, fs).val)
       THEN /\ SetU(set_status_message(U,
                      ErrInvalidInterpreter(get_python_interpreter(tabs, cur, fs).val),
                      FALSE))
            /\ tabs' = [tabs EXCEPT ![cur].output =
                          ErrInvalidInterpreter(get_python_interpreter(tabs, cur, fs).val)]
            /\ UNCHANGED reqs
       ELSE /\ tabs' = [tabs EXCEPT ![cur].output = <<>>]
            /\ start_thread("run", get_python_interpreter(tabs, cur, fs).val, tabs[cur].w)
            /\ SetU(U)
    /\ UNCHANGED <<phase, cur, idleq, file, app_settings, settings_file, fs, resolved>>

\* on_pip_freeze_clicked (Ctrl+P).
on_pip_freeze_clicked ==
    /\ phase = "running"
    /\ FreeSlots # {}
    /\ IF cur = 0
       THEN /\ SetU(set_status_message(U, MsgNoActiveTab, TRUE))
            /\ UNCHANGED <<tabs, reqs>>
       ELSE IF env_raises(tabs, cur)
       THEN /\ SetU(U)
            /\ UNCHANGED <<tabs, reqs>>
       ELSE IF StartsWithWarning(get_python_interpreter(tabs, cur, fs).val)
       THEN /\ SetU(set_status_message(U,
                      ErrPipInvalidInterpreter(get_python_interpreter(tabs, cur, fs).val),
                      FALSE))
            /\ tabs' = [tabs EXCEPT ![cur].output =
                          PipInvalidText(get_python_interpreter(tabs, cur, fs).val)]
            /\ UNCHANGED reqs
       ELSE /\ SetU(set_status_message(U,
                      MsgRunningPip(get_python_interpreter(tabs, cur, fs).val), FALSE))
            /\ tabs' = [tabs EXCEPT ![cur].output = PipRunningText]
            /\ start_thread("pip", get_python_interpreter(tabs, cur, fs).val, tabs[cur].w)
    /\ UNCHANGED <<phase, cur, idleq, file, app_settings, settings_file, fs, resolved>>

\* ---------------------------------------------------------- worker threads
\* What a finished child leaves: returncode, stdout_data, stderr_data.
ChildResults ==
    { [rc |-> 0, out |-> <<"out", "\n">>, err |-> <<>>],
      [rc |-> 0, out |-> <<"\n">>, err |-> <<"warning">>],
      [rc |-> 1, out |-> <<>>, err |-> <<"Traceback">>],
      [rc |-> 1, out |-> <<"out", "\n">>, err |-> <<"No module named pip">>],
      [rc |-> 0, out |-> <<"out">>, err |-> <<"warning">>],
      [rc |-> 2, out |-> <<"out">>, err |-> <<"Traceback">>],
      [rc |-> 0, out |-> <<>>, err |-> <<>>] }

\* stdout_data read by communicate() after kill().
PartialOutputs == {<<>>, <<"out", "\n">>}

\* A descendant of the child that outlives it: "piped" holds the child's
\* stdout/stderr pipes open, "detached" does not.
Descendants == {"none", "piped", "detached"}

HdrWarnings == <<"--- Warnings/Stderr Output ---", "\n">>
HdrExit(rc) == <<"--- Error (Exit Code", rc, ") ---", "\n">>
HdrTimeout == <<"--- Error: Code execution timed out after EXECUTION_TIMEOUT seconds ---", "\n">>
HdrPipWarnings == <<"--- Pip Warnings/Stderr ---", "\n">>
HdrPipExit(rc) == <<"Error running pip freeze (Exit Code:", rc, "):", "\n">>
HdrPipTimeout == <<"--- Error: pip freeze timed out after EXECUTION_TIMEOUT seconds ---", "\n">>
PipNoPackages == <<"# No packages installed in this environment.">>
ErrNotFound(p) == <<"Error: Python interpreter not found:">> \o p
ErrNoPip(p) == <<"Error: 'pip' module not found for interpreter">> \o p
ErrExecuting(kind) ==
    IF kind = "run" THEN <<"Error executing code: e">>
    ELSE <<"Error executing pip freeze: e">>

\* The try body of _run_code_thread after communicate(timeout) returned res.
run_result(res) ==
    IF res.rc = 0
    THEN [output |-> res.out,
          error |-> IF res.err # <<>> THEN HdrWarnings \o res.err ELSE <<>>,
          success |-> TRUE, outcome |-> "completed", child |-> res]
    ELSE [output |-> res.out, error |-> HdrExit(res.rc) \o res.err,
          success |-> FALSE, outcome |-> "failed", child |-> res]

\* A listing passed on as it came, without the placeholder.
pip_result_raw(res, interp) ==
    IF res.rc = 0
    THEN [output |-> res.out,
          error |-> IF res.err # <<>> THEN HdrPipWarnings \o res.err ELSE <<>>,
          success |-> TRUE, outcome |-> "completed", child |-> res]
    ELSE [output |-> res.out, error |-> HdrPipExit(res.rc) \o res.err,
          success |-> FALSE, outcome |-> "failed", child |-> res]

\* The try body of _run_pip_freeze_thread after communicate(timeout) returned.
pip_result(res, interp) ==
    IF res.rc = 0
    THEN [output |-> IF IsBlank(res.out) THEN PipNoPackages ELSE res.out,
          error |-> IF res.err # <<>> THEN HdrPipWarnings \o res.err ELSE <<>>,
          success |-> TRUE, outcome |-> "completed", child |-> res]
    ELSE [output |-> res.out,
          error |-> IF res.err = <<"No module named pip">> THEN ErrNoPip(interp)
                    ELSE HdrPipExit(res.rc) \o res.err,
          success |-> FALSE, outcome |-> "failed", child |-> res]

\* A timeout branch that words its message like a nonzero exit.
timeout_as_exit(kind, out) ==
    [output |-> out, error |-> IF kind = "run" THEN HdrExit(-9) ELSE HdrPipExit(-9),
     success |-> FALSE, outcome |-> "timeout",
     child |-> [rc |-> -9, out |-> out, err |-> <<>>]]

\* The except subprocess.TimeoutExpired branch once communicate() returned
\* out and an empty stderr_data.
timeout_result(kind, out) ==
    [output |-> out, error |-> IF kind = "run" THEN HdrTimeout ELSE HdrPipTimeout,
     success |-> FALSE, outcome |-> "timeout",
     child |-> [rc |-> -9, out |-> out, err |-> <<>>]]

\* GLib.idle_add(self._update_output_view, output, error, success, ...) by
\* thread r, its process and descendant being left as p and d.
post(r, res, p, d) ==
    /\ reqs' = [reqs EXCEPT ![r] = [@ EXCEPT !.pc = "posted", !.proc = p, !.desc = d,
                                       !.output = res.output, !.error = res.error,
                                       !.success = res.success,
                                       !.outcome = res.outcome,
                                       !.child = res.child]]
    /\ idleq' = Append(idleq, r)

\* A worker that writes its progress into the status line itself.
WorkerFrameWritesStatus ==
    /\ ui_waited' = FALSE
    /\ status' = <<"Finished.">>
    /\ UNCHANGED <<phase, tabs, cur, status_timeout_id, timers, file,
                   app_settings, settings_file, fs, resolved>>

WorkerFrame ==
    /\ ui_waited' = FALSE
    /\ UNCHANGED <<phase, tabs, cur, status, status_timeout_id, timers, file,
                   app_settings, settings_file, fs, resolved>>

\* subprocess.Popen in thread r: the child starts (with the descendant d it
\* will leave behind), or Popen raises FileNotFoundError or another OSError.
popen(r, how, d) ==
    /\ phase = "running"
    /\ reqs[r].pc = "started"
    /\ CASE how = "ok" ->
              /\ reqs' = [reqs EXCEPT ![r].pc = "communicate", ![r].proc = "alive",
                                      ![r].desc = d]
              /\ UNCHANGED idleq
         [] how = "FileNotFoundError" ->
              /\ d = "none"
              /\ post(r, [output |-> <<>>, error |-> ErrNotFound(reqs[r].interp),
                          success |-> FALSE, outcome |-> "not_found",
                          child |-> NoChild], "none", "none")
         [] OTHER ->
              /\ d = "none"
              /\ post(r, [output |-> <<>>, error |-> ErrExecuting(reqs[r].kind),
                          success |-> FALSE, outcome |-> "exception", child |-> NoChild], "none", "none")
    /\ WorkerFrame

\* process.communicate(timeout=EXECUTION_TIMEOUT) returns: the child has
\* exited and both pipes are at end of file.
communicate_returns(r, res) ==
    /\ phase = "running"
    /\ reqs[r].pc = "communicate"
    /\ reqs[r].desc # "piped"
    /\ post(r, IF reqs[r].kind = "run" THEN run_result(res)
               ELSE pip_result(res, reqs[r].interp), "exited", reqs[r].desc)
    /\ WorkerFrame

\* communicate raises TimeoutExpired; process.kill() signals the child only;
\* the thread enters process.communicate(), which has no timeout.
communicate_times_out(r) ==
    /\ phase = "running"
    /\ reqs[r].pc = "communicate"
    /\ reqs' = [reqs EXCEPT ![r].pc = "killed", ![r].proc = "killed",
                            ![r].outcome = "timeout"]
    /\ UNCHANGED idleq
    /\ WorkerFrame

\* An except branch that posts without looking at the child.
communicate_raises_no_kill(r, still_running) ==
    /\ phase = "running"
    /\ reqs[r].pc = "communicate"
    /\ post(r, [output |-> <<>>, error |-> ErrExecuting(reqs[r].kind),
                success |-> FALSE, outcome |-> "exception", child |-> NoChild],
            IF still_running THEN "alive" ELSE "exited", reqs[r].desc)
    /\ WorkerFrame

\* communicate raises some other Exception.  If the child is still running
\* it is killed and communicate() is entered; else the result is posted.
communicate_raises(r, still_running) ==
    /\ phase = "running"
    /\ reqs[r].pc = "communicate"
    /\ IF still_running
       THEN /\ reqs' = [reqs EXCEPT ![r].pc = "killed", ![r].proc = "killed",
                                    ![r].outcome = "exception"]
            /\ UNCHANGED idleq
       ELSE post(r, [output |-> <<>>, error |-> ErrExecuting(reqs[r].kind),
                     success |-> FALSE, outcome |-> "exception", child |-> NoChild], "exited",
                 reqs[r].desc)
    /\ WorkerFrame

\* process.communicate() after kill() returns: both pipes are at end of
\* file, which needs every holder of them to have exited.
communicate_after_kill(r, out) ==
    /\ phase = "running"
    /\ reqs[r].pc = "killed"
    /\ reqs[r].desc # "piped"
    /\ post(r, IF reqs[r].outcome = "timeout" THEN timeout_result(reqs[r].kind, out)
               ELSE [output |-> <<>>, error |-> ErrExecuting(reqs[r].kind),
                     success |-> FALSE, outcome |-> "exception", child |-> NoChild],
            "killed", reqs[r].desc)
    /\ WorkerFrame

\* A descendant of r's child that holds the pipes exits by itself while the
\* thread is waiting in communicate.
descendant_exits(r) ==
    /\ phase = "running"
    /\ reqs[r].pc \in {"communicate", "killed"}
    /\ reqs[r].desc = "piped"
    /\ reqs' = [reqs EXCEPT ![r].desc = "none"]
    /\ UNCHANGED idleq
    /\ WorkerFrame

\* full_output of _update_output_view
full_output(output_text, error_text) ==
    IF error_text # <<>>
    THEN IF output_text # <<>> THEN output_text \o <<"\n">> \o error_text
         ELSE error_text
    ELSE output_text

\* _update_output_view, the idle callback at the head of the queue: the text
\* goes into the output buffer of the tab that made the request; the status
\* is restored only if that tab is the active one.
update_output_view ==
    /\ phase = "running"
    /\ idleq # <<>>
    /\ tabs' = set_output(tabs, reqs[Head(idleq)].origin,
                          full_output(reqs[Head(idleq)].output, reqs[Head(idleq)].error))
    /\ SetU(IF cur # 0 /\ tabs[cur].w = reqs[Head(idleq)].origin
            THEN restore_default_status(U, tabs, cur) ELSE U)
    /\ reqs' = [reqs EXCEPT ![Head(idleq)] = [FreeSlot EXCEPT !.pc = "delivered"]]
    /\ idleq' = Tail(idleq)
    /\ UNCHANGED <<phase, cur, file, app_settings, settings_file, fs, resolved>>

\* ------------------------------------------------------ session lifecycle
\* Cache files a start may find.  Elements: a well-formed tab, a second one
\* with a venv, a non-object, a non-string code, no venv_settings, a
\* venv_settings lacking a key, wrong-typed values, an unknown key.
Elem(code, vs) == [isdict |-> TRUE, has_code |-> TRUE, code |-> code,
                   has_vs |-> TRUE, vs |-> vs]
Vs(use, folder) == [isdict |-> TRUE, has_use |-> TRUE, has_folder |-> TRUE,
                    use |-> use, folder |-> folder, extra |-> FALSE]

ElemPlain == Elem(PyStr(<<"print(1)">>), Vs(PyBool(FALSE), PyStr(<<>>)))
ElemVenv == Elem(PyStr(<<>>), Vs(PyBool(TRUE), PyStr(VenvA)))
ElemNotDict == [ElemPlain EXCEPT !.isdict = FALSE]
ElemCodeInt == Elem(PyInt(5), Vs(PyBool(FALSE), PyStr(<<>>)))
ElemNoVs == [ElemPlain EXCEPT !.has_vs = FALSE]
ElemVsNoFolder == Elem(PyStr(<<>>), [Vs(PyBool(TRUE), PyStr(<<>>)) EXCEPT !.has_folder = FALSE])
ElemWrongTypes == Elem(PyStr(<<>>), Vs(PyStr(<<"yes">>), PyList))
ElemExtraKey == Elem(PyStr(<<>>), [Vs(PyBool(FALSE), PyStr(VenvA)) EXCEPT !.extra = TRUE])

SessionElems == {ElemPlain, ElemVenv, ElemNotDict, ElemCodeInt, ElemNoVs,
                 ElemVsNoFolder, ElemWrongTypes, ElemExtraKey}

SessionFiles ==
    {NoFile, UnreadableFile, BadJsonFile, NonListFile, ListFile(<<>>)}
    \cup {ListFile(<<e>>) : e \in SessionElems}
    \cup {ListFile(<<e1, e2>>) : e1 \in SessionElems, e2 \in SessionElems}

DefaultFs == [dirs |-> FsDirs, execs |-> FsExecs, which3 |-> SysPython3,
              which |-> SysPython]

\* Before the program is started, with file f in the cache directory.
Off(f) ==
    /\ phase = "off"
    /\ tabs = <<>>
    /\ cur = 0
    /\ status = <<>>
    /\ status_timeout_id = 0
    /\ timers = {}
    /\ reqs = NoRequests
    /\ idleq = <<>>
    /\ file = f
    /\ app_settings = DEFAULT_APP_SETTINGS
    /\ settings_file = NoSettingsFile
    /\ fs = DefaultFs
    /\ ui_waited = FALSE
    /\ resolved = NotCalled

\* A running window with pages ts, page c current, nothing in progress.
Running(ts, c) ==
    /\ phase = "running"
    /\ tabs = ts
    /\ cur = c
    /\ status = SysPython3 \o <<"(version)">>
    /\ status_timeout_id = 0
    /\ timers = {}
    /\ reqs = NoRequests
    /\ idleq = <<>>
    /\ file = NoFile
    /\ app_settings = DEFAULT_APP_SETTINGS
    /\ settings_file = SettingsDoc(DEFAULT_APP_SETTINGS)
    /\ fs = DefaultFs
    /\ ui_waited = FALSE
    /\ resolved = NotCalled

\* --- persistence: start from any cache file, or quit from any set of tabs
\* and start again.  The label of a page is at least its position: it was
\* numbered n_pages + 1 when appended, and pages only move left.
PersistSettings ==
    {DEFAULT_VENV_SETTINGS,
     [use_custom_venv |-> PyBool(TRUE), venv_folder |-> PyStr(VenvA), extra |-> FALSE],
     [use_custom_venv |-> PyBool(FALSE), venv_folder |-> PyStr(VenvB), extra |-> TRUE]}

PersistTabs(w) ==
    {[Tab(w, l, c, v) EXCEPT !.output = o] :
        l \in w..MaxTabs, c \in CodeValues, v \in PersistSettings,
        o \in {<<>>, <<"hi", "\n">>}}

InitPersist ==
    \/ \E f \in SessionFiles : Off(f)
    \/ Running(<<>>, 0)
    \/ \E t1 \in PersistTabs(1) : Running(<<t1>>, 1)
    \/ \E t1 \in PersistTabs(1), t2 \in PersistTabs(2), c \in 1..2 :
          Running(<<t1, t2>>, c)

NextPersist ==
    \/ Startup("ok")
    \/ \E io \in SaveOutcomes : on_destroy(io, "ok")

SpecPersist == InitPersist /\ [][NextPersist]_vars

\* --- one run of the program from a cache file, without changes of the
\* global settings and with the settings file written without error.
TabsFiles == {NoFile, ListFile(<<ElemVenv, ElemPlain>>)}

InitTabs == \E f \in TabsFiles : Off(f)

NextTabs ==
    \/ (phase = "off" /\ Startup("ok"))
    \/ \E io \in SaveOutcomes : on_destroy(io, "ok")
    \/ on_new_tab_clicked
    \/ on_remove_tab_clicked
    \/ \E i \in 1..MaxTabs : switch_page(i)
    \/ \E c \in CodeValues : edit_code(c)
    \/ \E d \in DialogVenvChoices : settings_apply(d.use, d.path, 4, "ok")
    \/ settings_cancel
    \/ \E id \in timers : timeout_fires(id)

SpecTabs == InitTabs /\ [][NextTabs]_vars

\* --- executions: a window with two tabs, the second with a venv and no code.
NoPythonFs == [dirs |-> FsDirs, execs |-> FsExecs, which3 |-> <<>>, which |-> <<>>]

ExecTabs ==
    <<Tab(1, 1, <<"print(1)">>, DEFAULT_VENV_SETTINGS),
      Tab(2, 2, <<>>,
          [use_custom_venv |-> PyBool(TRUE), venv_folder |-> PyStr(VenvA),
           extra |-> FALSE])>>

\* The child's results explored here: a clean exit with warnings, a failure.
ExecResults ==
    { [rc |-> 0, out |-> <<"out", "\n">>, err |-> <<"warning">>],
      [rc |-> 1, out |-> <<>>, err |-> <<"Traceback">>] }

InitExec == Running(ExecTabs, 1)

NextExec ==
    \/ on_run_clicked
    \/ on_pip_freeze_clicked
    \/ \E r \in 1..MaxReqs, how \in {"ok", "FileNotFoundError", "OSError"},
          d \in Descendants : popen(r, how, d)
    \/ \E r \in 1..MaxReqs, res \in ExecResults : communicate_returns(r, res)
    \/ \E r \in 1..MaxReqs : communicate_times_out(r)
    \/ \E r \in 1..MaxReqs, b \in BOOLEAN : communicate_raises(r, b)
    \/ \E r \in 1..MaxReqs : communicate_after_kill(r, <<>>)
    \/ \E r \in 1..MaxReqs : descendant_exits(r)
    \/ update_output_view
    \/ \E i \in 1..MaxTabs : switch_page(i)
    \/ on_remove_tab_clicked
    \/ \E id \in timers : timeout_fires(id)
    \/ on_destroy("ok", "ok")

SpecExec == InitExec /\ [][NextExec]_vars

\* --- requests: one Run or List-packages request on a window with one tab
\* (or none), whatever the tab's settings and the search path; a temporary
\* message may be showing, and a result of an earlier request of the tab may
\* be waiting for delivery.
RequestFolders == {<<>>, Nonexistent, VenvA, VenvOdd}

PostedSlot ==
    [FreeSlot EXCEPT !.pc = "posted", !.interp = VenvA \o <<"bin", "python3">>,
                     !.origin = 1, !.proc = "exited", !.output = <<"out", "\n">>,
                     !.success = TRUE, !.outcome = "completed",
                     !.child = [rc |-> 0, out |-> <<"out", "\n">>, err |-> <<>>]]

InitRequest ==
    \E ts \in {<<>>} \cup
              {<<Tab(1, 1, c, [use_custom_venv |-> PyBool(b), venv_folder |-> PyStr(d),
                               extra |-> FALSE])>> :
                  c \in CodeValues, b \in BOOLEAN, d \in RequestFolders},
       f \in FsConfigs, pending \in BOOLEAN, posted \in BOOLEAN :
        /\ phase = "running"
        /\ tabs = ts
        /\ cur = Len(ts)
        /\ fs = f
        /\ status = IF pending THEN MsgSettingsApplied
                    ELSE IF ts = <<>> THEN MsgNoTabs
                    ELSE IF StartsWithWarning(get_python_interpreter(ts, 1, f).val)
                    THEN <<"Python Env: ">> \o get_python_interpreter(ts, 1, f).val
                    ELSE get_python_interpreter(ts, 1, f).val \o <<"(version)">>
        /\ status_timeout_id = IF pending THEN 1 ELSE 0
        /\ timers = IF pending THEN {1} ELSE {}
        /\ posted => ts # <<>>
        /\ reqs = IF posted THEN [NoRequests EXCEPT ![1] = PostedSlot] ELSE NoRequests
        /\ idleq = IF posted THEN <<1>> ELSE <<>>
        /\ file = NoFile
        /\ app_settings = DEFAULT_APP_SETTINGS
        /\ settings_file = SettingsDoc(DEFAULT_APP_SETTINGS)
        /\ ui_waited = FALSE
        /\ resolved = NotCalled

NextRequest ==
    \/ on_run_clicked
    \/ on_pip_freeze_clicked
    \/ update_output_view
    \/ \E id \in timers : timeout_fires(id)

SpecRequest == InitRequest /\ [][NextRequest]_vars

\* --- one execution: a window with one tab whose request, the last the
\* window's threads can take, goes through every result a child can give.
WorkerSettings ==
    {DEFAULT_VENV_SETTINGS,
     [use_custom_venv |-> PyBool(TRUE), venv_folder |-> PyStr(VenvA), extra |-> FALSE]}

InitWorker ==
    \E v \in WorkerSettings, pending \in BOOLEAN :
        /\ phase = "running"
        /\ tabs = <<Tab(1, 1, <<"print(1)">>, v)>>
        /\ cur = 1
        /\ fs = DefaultFs
        /\ status = IF pending THEN MsgSettingsApplied
                    ELSE get_python_interpreter(tabs, 1, DefaultFs).val \o <<"(version)">>
        /\ status_timeout_id = IF pending THEN 1 ELSE 0
        /\ timers = IF pending THEN {1} ELSE {}
        /\ reqs = [r \in 1..MaxReqs |->
                      IF r = 1 THEN FreeSlot ELSE [FreeSlot EXCEPT !.pc = "delivered"]]
        /\ idleq = <<>>
        /\ file = NoFile
        /\ app_settings = DEFAULT_APP_SETTINGS
        /\ settings_file = SettingsDoc(DEFAULT_APP_SETTINGS)
        /\ ui_waited = FALSE
        /\ resolved = NotCalled

NextWorker ==
    \/ on_run_clicked
    \/ on_pip_freeze_clicked
    \/ \E r \in 1..MaxReqs, how \in {"ok", "FileNotFoundError", "OSError"},
          d \in Descendants : popen(r, how, d)
    \/ \E r \in 1..MaxReqs, res \in ChildResults : communicate_returns(r, res)
    \/ \E r \in 1..MaxReqs : communicate_times_out(r)
    \/ \E r \in 1..MaxReqs, b \in BOOLEAN : communicate_raises(r, b)
    \/ \E r \in 1..MaxReqs, out \in PartialOutputs : communicate_after_kill(r, out)
    \/ \E r \in 1..MaxReqs : descendant_exits(r)
    \/ update_output_view
    \/ \E id \in timers : timeout_fires(id)

SpecWorker == InitWorker /\ [][NextWorker]_vars

\* --- routing: two tabs with code; requests overlap with tab switches,
\* removals and new tabs.  Every child is spawned and exits by itself.
RouteTabs ==
    <<Tab(1, 1, <<"print(1)">>, DEFAULT_VENV_SETTINGS),
      Tab(2, 2, <<"print(1)">>, DEFAULT_VENV_SETTINGS)>>

RouteResults ==
    { [rc |-> 0, out |-> <<"out", "\n">>, err |-> <<>>],
      [rc |-> 1, out |-> <<"out", "\n">>, err |-> <<"Traceback">>] }

InitRoute == Running(RouteTabs, 1)

NextRoute ==
    \/ on_run_clicked
    \/ on_pip_freeze_clicked
    \/ \E r \in 1..MaxReqs : popen(r, "ok", "none")
    \/ \E r \in 1..MaxReqs, res \in RouteResults : communicate_returns(r, res)
    \/ update_output_view
    \/ \E i \in 1..MaxTabs : switch_page(i)
    \/ on_remove_tab_clicked
    \/ on_new_tab_clicked
    \/ \E id \in timers : timeout_fires(id)

SpecRoute == InitRoute /\ [][NextRoute]_vars

\* --- global settings: a start of the program over any settings file.
\* Values a file may hold per key: of the default's type, and of other types.
SettingsFileValues ==
    [draw_whitespaces : {PyBool(FALSE), PyBool(TRUE), PyInt(1)},
     tab_size : {PyInt(4), PyInt(8), PyBool(TRUE), PyStr(<<"4">>)},
     translate_tabs : {PyBool(TRUE), PyStr(<<"yes">>)},
     color_scheme_id : {PyStr(<<"oblivion">>), PyInt(0)}]

\* Key sets of a settings object: all keys, one missing, none, an unknown one.
SettingsFileKeys ==
    {SettingKeys, SettingKeys \ {"tab_size"}, {}, SettingKeys \cup {"font"}}

SettingsFiles ==
    {NoSettingsFile, BadSettingsFile,
     [NoSettingsFile EXCEPT !.kind = "nondict"],
     [NoSettingsFile EXCEPT !.kind = "unreadable"]}
    \cup {[kind |-> "dict", has |-> h, vals |-> v] :
             h \in SettingsFileKeys, v \in SettingsFileValues}

InitSettings ==
    \E sf \in SettingsFiles :
        /\ phase = "off"
        /\ tabs = <<>>
        /\ cur = 0
        /\ status = <<>>
        /\ status_timeout_id = 0
        /\ timers = {}
        /\ reqs = NoRequests
        /\ idleq = <<>>
        /\ file = NoFile
        /\ app_settings = DEFAULT_APP_SETTINGS
        /\ settings_file = sf
        /\ fs = DefaultFs
        /\ ui_waited = FALSE
        /\ resolved = NotCalled

NextSettings == \E io \in SaveOutcomes : Startup(io)

SpecSettings == InitSettings /\ [][NextSettings]_vars

\* --- saving: a running window whose writes to the cache directory may
\* fail, on a settings commit and on exit.
SaveTabSizes == {4, 8}

InitSave ==
    \/ Running(<<>>, 0)
    \/ \E t1 \in PersistTabs(1) : Running(<<t1>>, 1)

NextSave ==
    \/ \E io1, io2 \in SaveOutcomes : on_destroy(io1, io2)
    \/ \E d \in DialogVenvChoices, n \in SaveTabSizes, io \in SaveOutcomes :
          settings_apply(d.use, d.path, n, io)

SpecSave == InitSave /\ [][NextSave]_vars

\* ------------------------------------------- resolution as a pure function
\* Inputs of the resolution check: every combination of the two settings
\* values a tab can hold (from the dialog or from the cache file).
ResolveUseValues == {PyBool(TRUE), PyBool(FALSE), PyStr(<<"yes">>)}
ResolveFolderValues ==
    {PyStr(<<>>), PyStr(Nonexistent), PyStr(VenvA), PyStr(VenvB), PyStr(VenvEmpty),
     PyStr(VenvOdd), PyList}

InitResolve ==
    \E u \in ResolveUseValues, d \in ResolveFolderValues, x \in BOOLEAN, f \in FsConfigs :
        /\ phase = "running"
        /\ tabs = <<Tab(1, 1, <<>>, [use_custom_venv |-> u, venv_folder |-> d,
                                     extra |-> x])>>
        /\ cur = 1
        /\ status = <<>>
        /\ status_timeout_id = 0
        /\ timers = {}
        /\ reqs = NoRequests
        /\ idleq = <<>>
        /\ file = NoFile
        /\ app_settings = DEFAULT_APP_SETTINGS
        /\ settings_file = NoSettingsFile
        /\ fs = f
        /\ ui_waited = FALSE
        /\ resolved = NotCalled

Resolve ==
    /\ resolved = NotCalled
    /\ resolved' = get_python_interpreter(tabs, cur, fs)
    /\ UNCHANGED <<phase, tabs, cur, status, status_timeout_id, timers, reqs, idleq,
                   file, app_settings, settings_file, fs, ui_waited>>

NextResolve == Resolve

SpecResolve == InitResolve /\ [][NextResolve]_vars

\* ================================================================ claims
\* One step of the worker thread of request r.
WorkerStep(r) ==
    \/ \E how \in {"ok", "FileNotFoundError", "OSError"}, d \in Descendants :
          popen(r, how, d)
    \/ \E res \in ChildResults : communicate_returns(r, res)
    \/ communicate_times_out(r)
    \/ \E b \in BOOLEAN : communicate_raises(r, b)
    \/ \E out \in PartialOutputs : communicate_after_kill(r, out)

InWorker(r) == reqs[r].pc \in {"started", "communicate", "killed"}
InFlight(r) == reqs[r].pc \in {"started", "communicate", "killed", "posted"}
Occurrences(r) == Cardinality({i \in 1..Len(idleq) : idleq[i] = r})

\* C1: every started request ends with exactly one result handed to the UI
\* thread.  In finite-run form: a thread that has not yet posted can always
\* take its next step by itself, a posted result is queued exactly once and
\* can be delivered, and nothing else is queued.
C1_ExactlyOneResult ==
    phase = "running" =>
        \A r \in 1..MaxReqs :
            /\ InWorker(r) => ENABLED WorkerStep(r)
            /\ Occurrences(r) = IF reqs[r].pc = "posted" THEN 1 ELSE 0
            /\ reqs[r].pc = "posted" => ENABLED update_output_view

\* C2: at most one execution is in flight per tab: two requests that are both
\* started and not yet delivered never belong to the same tab.
C2_OneInFlightPerTab ==
    \A r1, r2 \in 1..MaxReqs :
        r1 # r2 /\ InFlight(r1) /\ InFlight(r2) => reqs[r1].origin # reqs[r2].origin

\* The step that delivers the result at the head of the idle queue.
Delivers ==
    /\ phase = "running"
    /\ idleq # <<>>
    /\ phase' = "running"
    /\ idleq' = Tail(idleq)

\* The result at the head of the queue comes from a tab that is not active.
StaleHead == cur = 0 \/ tabs[cur].w # reqs[Head(idleq)].origin

\* C3 (as claimed): a result whose originating tab is no longer active is
\* discarded: delivering it changes no output pane.
C3_StaleResultDiscarded == [][Delivers /\ StaleHead => tabs' = tabs]_vars

\* C3 (as the code has it): a result whose originating tab is no longer active
\* is written to the originating tab's own pane if the tab still exists, to no
\* other pane, and the status line and its timer are left alone.
C3_StaleResultToOrigin ==
    [][Delivers /\ StaleHead =>
         (/\ Len(tabs') = Len(tabs)
          /\ \A i \in 1..Len(tabs) :
                tabs'[i] = IF tabs[i].w = reqs[Head(idleq)].origin
                           THEN [tabs[i] EXCEPT !.output =
                                    full_output(reqs[Head(idleq)].output,
                                                reqs[Head(idleq)].error)]
                           ELSE tabs[i]
          /\ status' = status
          /\ status_timeout_id' = status_timeout_id
          /\ timers' = timers)]_vars

\* A result is about to be delivered whose tab exists, is not the active one
\* and shows something else than the result.
C3_Witness ==
    /\ phase = "running"
    /\ idleq # <<>>
    /\ cur # 0
    /\ \E i \in 1..Len(tabs) :
          /\ i # cur
          /\ tabs[i].w = reqs[Head(idleq)].origin
          /\ tabs[i].output # full_output(reqs[Head(idleq)].output,
                                          reqs[Head(idleq)].error)

\* C4: no handler on the UI thread spawns a subprocess and waits for it.
C4_UiNeverWaits == ~ui_waited

\* C5: when the timeout has elapsed, the child and all its descendants are
\* dead from the kill on: while the thread collects the output and when the
\* timed-out result is posted.
C5_TimeoutKillsTree ==
    \A r \in 1..MaxReqs :
        reqs[r].pc \in {"killed", "posted"} /\ reqs[r].outcome = "timeout"
            => reqs[r].proc = "killed" /\ reqs[r].desc = "none"

\* The step that starts the program again on the document just saved from
\* a non-empty notebook (tabs still holds the pages as they were saved).
RoundTripStep ==
    /\ phase = "quit"
    /\ phase' # "quit"
    /\ tabs # <<>>
    /\ file = tabs_data(tabs)

\* The identifier of a tab is its "Tab N" label, the only one it has.
SameTabs(a, b) ==
    /\ Len(a) = Len(b)
    /\ \A i \in 1..Len(a) :
          /\ a[i].label = b[i].label
          /\ a[i].code = b[i].code
          /\ a[i].venv_settings = b[i].venv_settings

\* C6: saving a non-empty session and loading the saved document gives the
\* same number of tabs in the same order, each with the same id, text and
\* settings.
C6_RoundTrip == [][RoundTripStep => SameTabs(tabs, tabs')]_vars

\* _load_code_from_cache returns False for the file f.
LoadFails(f) ==
    ~load_code_from_cache(f, [status |-> MsgReady, tid |-> 0, timers |-> {},
                              waited |-> FALSE]).loaded

\* C7: when loading the session document fails, startup ends with a window
\* holding exactly one tab, empty and with the default settings.
C7_LoadFailureGivesDefaultTab ==
    [][(phase = "off" \/ phase = "quit") /\ phase' # phase /\ LoadFails(file) =>
          (/\ phase' = "running"
           /\ Len(tabs') = 1
           /\ tabs'[1].code = <<>>
           /\ tabs'[1].venv_settings = DEFAULT_VENV_SETTINGS)]_vars

\* C8: whatever happens during a save, the session file afterwards holds the
\* complete previous document or the complete new one.
C8_SaveAtomic == [][file' \in {file, tabs_data(tabs)}]_vars

\* C9 (as claimed): a visible window always has at least one tab.
C9_AtLeastOneTab == phase = "running" => Len(tabs) >= 1

\* C9 (as the code has it): nothing refuses to close a tab or replaces the
\* closed one.  Whenever the status line turns to "Tab removed." exactly one
\* tab has gone, the only tab of the window included; no step removes tabs in
\* another way; and there is a current page exactly when there are tabs.
C9_CloseRemovesOneTab ==
    [][phase = "running" /\ phase' = "running" =>
         (/\ status' = MsgTabRemoved /\ status # MsgTabRemoved
                => Len(tabs') = Len(tabs) - 1
          /\ Len(tabs') < Len(tabs)
                => Len(tabs') = Len(tabs) - 1 /\ status' = MsgTabRemoved
          /\ cur' # 0 <=> tabs' # <<>>)]_vars

\* The window is shown and has no tab.
C9_Witness == phase = "running" /\ tabs = <<>> /\ cur = 0

IsPrefix(a, b) == Len(a) <= Len(b) /\ SubSeq(b, 1, Len(a)) = a

\* The interpreter root v is empty, no directory, or a directory without an
\* executable bin/python3 or bin/python.
InvalidRoot(v, f) ==
    \/ ~Truthy(v)
    \/ v.type # "str"
    \/ v.s \notin f.dirs
    \/ /\ ~is_executable_file(f, v.s \o <<"bin", "python3">>)
       /\ ~is_executable_file(f, v.s \o <<"bin", "python">>)

\* C10: for a tab that asks for a custom interpreter with an invalid root,
\* resolution returns what the search path gives (or the marker), nothing
\* under the root, and does not raise.
C10_InvalidRootFallsBack ==
    /\ resolved # NotCalled
    /\ Truthy(tabs[1].venv_settings.use_custom_venv)
    /\ InvalidRoot(tabs[1].venv_settings.venv_folder, fs)
    => /\ ~resolved.raised
       /\ resolved.val = system_python(fs)
       /\ tabs[1].venv_settings.venv_folder.type = "str"
             /\ tabs[1].venv_settings.venv_folder.s # <<>>
          => ~IsPrefix(tabs[1].venv_settings.venv_folder.s, resolved.val)

Markers == {MarkerNoActiveTab, MarkerNoPython}

\* A thread is started by the step, with interpreter p.
Starts(p) ==
    \E r \in 1..MaxReqs :
        reqs[r].pc = "free" /\ reqs'[r].pc = "started" /\ reqs'[r].interp = p

\* C11: a request is refused exactly when resolution returned the marker:
\* with an active tab that has code to run, a step of Run or List-packages
\* starts a thread with the resolved interpreter if and only if that
\* interpreter is not a marker.
C11_RefusedIffMarker ==
    [][cur # 0 /\ ~IsBlank(tabs[cur].code) /\ ~env_raises(tabs, cur)
         /\ (reqs' # reqs \/ tabs' # tabs) /\ idleq' = idleq =>
          (get_python_interpreter(tabs, cur, fs).val \notin Markers
              <=> Starts(get_python_interpreter(tabs, cur, fs).val))]_vars

\* The status line shows the error of a request refused for the marker p.
ErrorShown(text) ==
    \E p \in Markers : text \in {ErrInvalidInterpreter(p), ErrPipInvalidInterpreter(p)}

\* A status text that only the Run and List-packages handlers write.
HandlerMessage(text) ==
    \/ text \in {MsgNoActiveTab, MsgNothingToRun}
    \/ ErrorShown(text)
    \/ \E p \in {SysPython3, SysPython} \cup FsExecs : text = MsgRunningPip(p)

\* C12: when resolution returns the marker for a Run or List-packages request
\* no thread is started and nothing is queued, the error is put on the status
\* line without a timer, and the error stays until one of the user's requests
\* writes another message: no timer and no delivery replaces it.
C12_ResolutionErrorPersistent ==
    [][/\ (/\ cur # 0
           /\ ~IsBlank(tabs[cur].code)
           /\ ~env_raises(tabs, cur)
           /\ get_python_interpreter(tabs, cur, fs).val \in Markers
           /\ (reqs' # reqs \/ tabs' # tabs)
           /\ idleq' = idleq)
          => (/\ reqs' = reqs
              /\ ErrorShown(status')
              /\ status_timeout_id' = 0
              /\ status_timeout_id \notin timers')
       /\ (\E r \in 1..MaxReqs : reqs[r].pc = "free" /\ reqs'[r].pc = "started")
          => (cur # 0 /\ get_python_interpreter(tabs, cur, fs).val \notin Markers)
       /\ ErrorShown(status') => (status_timeout_id' = 0)
       /\ (ErrorShown(status) /\ status' # status) => HandlerMessage(status')]_vars

\* The error of a refused request is on the status line while a timeout
\* source of an earlier message is still pending.
C12_Witness ==
    /\ ErrorShown(status)
    /\ status_timeout_id = 0
    /\ timers # {}
    /\ \A r \in 1..MaxReqs : reqs[r].pc # "started"

\* The step changes the structure of the session: the number of tabs or the
\* settings of a tab.
StructuralChange ==
    \/ Len(tabs') # Len(tabs)
    \/ \E i \in 1..Len(tabs) : tabs'[i].venv_settings # tabs[i].venv_settings

\* C13: the session is persisted on every structural change: after a step
\* of the running window that adds or closes a tab or commits a tab's
\* settings, the session file describes the tabs then open.
C13_PersistedOnStructuralChange ==
    [][phase = "running" /\ phase' = "running" /\ StructuralChange
          => file' = tabs_data(tabs')]_vars

\* Settings with exactly the known keys, a boolean use_custom_venv and a
\* string venv_folder.
WellFormedSettings(v) ==
    /\ ~v.extra
    /\ v.use_custom_venv.type = "bool"
    /\ v.venv_folder.type = "str"

\* C14: every tab built by loading the session file has well-formed
\* settings: no unknown key, a boolean flag and a string root.
C14_LoadedSettingsWellFormed ==
    [][phase = "off" /\ phase' = "running" /\ file.kind = "list"
          => \A i \in 1..Len(tabs') : WellFormedSettings(tabs'[i].venv_settings)]_vars

\* C15: tab identifiers are unique: no two open tabs carry the same
\* identifier (the "Tab N" label is the only identifier a tab is given).
C15_TabIdsUnique ==
    \A i, j \in 1..Len(tabs) : tabs[i].label = tabs[j].label => i = j

\* C16: a failed write of the session or of the settings raises nothing
\* and changes nothing in memory.  The session file is written by the exit
\* step only, and whatever the two writes of that step do, the program
\* quits with its tabs and settings as they were; a settings commit whose
\* write fails keeps the committed settings in memory and runs to its end.
C16_SaveFailureContained ==
    [][(phase = "running")
          => (/\ (file' # file \/ phase' # "running")
                    => (phase' = "quit" /\ tabs' = tabs /\ app_settings' = app_settings)
              /\ (/\ phase' = "running" /\ settings_file' # settings_file
                  /\ settings_file' # SettingsDoc(app_settings'))
                    => (status' = MsgSettingsApplied /\ app_settings' # app_settings))]_vars

C16_Witness ==
    /\ phase = "quit"
    /\ tabs # <<>>
    /\ file = BadJsonFile
    /\ settings_file = BadSettingsFile
    /\ app_settings.tab_size = PyInt(8)

\* C17: worker threads never change shared UI or session state.  A step
\* that moves a thread between Popen and its idle_add leaves the tab list,
\* every tab's text, settings and output pane, the current page, the status
\* line and its timers and the global settings as they were; the only
\* shared thing it may change is the idle queue, by posting its own callback.
C17_WorkersLeaveUiAlone ==
    [][(phase' = "running" /\ \E r \in 1..MaxReqs : InWorker(r) /\ reqs'[r] # reqs[r])
          => (/\ tabs' = tabs /\ cur' = cur
              /\ status' = status /\ status_timeout_id' = status_timeout_id
              /\ timers' = timers
              /\ app_settings' = app_settings
              /\ file' = file /\ settings_file' = settings_file
              /\ (idleq' = idleq
                    \/ \E r \in 1..MaxReqs :
                          /\ InWorker(r) /\ reqs'[r].pc = "posted"
                          /\ idleq' = Append(idleq, r)))]_vars

C17_Witness ==
    /\ idleq = <<1>>
    /\ reqs[1].pc = "posted"
    /\ reqs[1].output # <<>>
    /\ tabs[1].output = <<>>
    /\ status_timeout_id # 0

\* The outcome class that the arguments handed to _update_output_view
\* (output, error, success) tell: the success flag, else the opening words
\* of the error text.
DeliveredClass(q) ==
    IF q.success THEN "completed"
    ELSE IF q.error = <<>> THEN "none"
    ELSE CASE q.error[1] \in {HdrExit(1)[1], HdrPipExit(1)[1], ErrNoPip(<<>>)[1]} -> "failed"
           [] q.error[1] \in {HdrTimeout[1], HdrPipTimeout[1]} -> "timeout"
           [] q.error[1] = ErrNotFound(<<>>)[1] -> "not_found"
           [] q.error[1] \in {ErrExecuting("run")[1], ErrExecuting("pip")[1]} -> "exception"
           [] OTHER -> "none"

EndsLine(t) == t # <<>> /\ t[Len(t)] = "\n"

\* stdout, a blank line, the marker line and stderr: the error text follows
\* an empty line that follows all of stdout.
RenderedWithBlankLine(out, error) ==
    IF EndsLine(out) THEN out \o <<"\n">> \o error
    ELSE out \o <<"\n", "\n">> \o error

\* C19: a result of a Run request whose child wrote to both stdout and
\* stderr is rendered as stdout, a blank line, one marker line and stderr,
\* whether stdout ends in a newline or not and whatever the exit code.
C19_StdoutBlankMarkerStderr ==
    [][(/\ idleq # <<>> /\ idleq' = Tail(idleq)
        /\ reqs[Head(idleq)].kind = "run"
        /\ reqs[Head(idleq)].outcome \in {"completed", "failed"}
        /\ reqs[Head(idleq)].child.out # <<>>
        /\ reqs[Head(idleq)].child.err # <<>>
        /\ cur # 0 /\ tabs[cur].w = reqs[Head(idleq)].origin)
          => (tabs'[cur].output =
                 RenderedWithBlankLine(reqs[Head(idleq)].child.out,
                     (IF reqs[Head(idleq)].child.rc = 0 THEN HdrWarnings
                      ELSE HdrExit(reqs[Head(idleq)].child.rc))
                     \o reqs[Head(idleq)].child.err))]_vars

\* C20: a List-packages execution that exits with code 0 never leaves the
\* output pane blank: the delivered output is the placeholder when the
\* listing is empty or only whitespace and the listing itself otherwise, and
\* the pane shows it first.
C20_PipListingNeverBlank ==
    [][(/\ idleq # <<>> /\ idleq' = Tail(idleq)
        /\ reqs[Head(idleq)].kind = "pip"
        /\ reqs[Head(idleq)].outcome = "completed"
        /\ cur # 0 /\ tabs[cur].w = reqs[Head(idleq)].origin)
          => (/\ reqs[Head(idleq)].child.rc = 0
              /\ reqs[Head(idleq)].output =
                    IF IsBlank(reqs[Head(idleq)].child.out) THEN PipNoPackages
                    ELSE reqs[Head(idleq)].child.out
              /\ ~IsBlank(PipNoPackages)
              /\ ~IsBlank(tabs'[cur].output)
              /\ IsPrefix(reqs[Head(idleq)].output, tabs'[cur].output))]_vars

C20_Witness ==
    /\ reqs[1].pc = "delivered"
    /\ IsPrefix(PipNoPackages, tabs[1].output)
    /\ Len(tabs[1].output) > Len(PipNoPackages)

DefaultStatusText(ts, c) ==
    IF StartsWithWarning(get_python_interpreter(ts, c, fs).val)
    THEN <<"Python Env: ">> \o get_python_interpreter(ts, c, fs).val
    ELSE get_python_interpreter(ts, c, fs).val \o <<"(version)">>

\* C23: when a result is delivered and the tab of its request is still the
\* active tab, the status line shows the default interpreter text after the
\* delivery, whatever it showed before ("Running pip freeze with ..."
\* included).
C23_StatusRestoredOnDelivery ==
    [][(/\ phase = "running" /\ idleq # <<>> /\ idleq' = Tail(idleq)
        /\ cur # 0 /\ tabs[cur].w = reqs[Head(idleq)].origin
        /\ ~env_raises(tabs, cur))
          => (status' = DefaultStatusText(tabs, cur))]_vars

\* C24: at most one status-restore timer is pending, the one whose id is
\* stored in _status_timeout_id; no timer is pending while the stored id is
\* empty.
C24_OnlyStoredTimerPending ==
    phase = "running" => timers \subseteq ({status_timeout_id} \ {0})

\* C25: when removing a tab leaves no tabs open, the status line shows the
\* "No tabs open" message once the remove action has finished, and while no
\* tab is open only a user action changes it: no timer step does.
C25_NoTabsMessageStays ==
    [][(phase = "running" /\ phase' = "running")
          => (/\ (tabs # <<>> /\ tabs' = <<>>) => status' = MsgNoTabs
              /\ (tabs = <<>> /\ status = MsgNoTabs /\ timers' \subseteq timers
                   /\ timers' # timers) => status' = MsgNoTabs)]_vars

\* C26: closing the settings dialog with Cancel or the window-close event
\* applies nothing: the step that puts "Settings cancelled." on the status
\* line leaves the global settings, the settings file, the session file and
\* every tab, the current tab's interpreter settings included, as they were.
C26_CancelAppliesNothing ==
    [][(phase = "running" /\ status' = MsgSettingsCancelled
           /\ status # MsgSettingsCancelled)
          => (/\ tabs' = tabs /\ cur' = cur
              /\ app_settings' = app_settings
              /\ settings_file' = settings_file
              /\ file' = file)]_vars

C26_Witness ==
    /\ phase = "running"
    /\ status = MsgSettingsCancelled
    /\ cur # 0
    /\ tabs[cur].venv_settings.venv_folder = PyStr(VenvA)
    /\ tabs[cur].venv_settings.use_custom_venv = PyBool(TRUE)

C28_ResultOnlyToOriginPane ==
    [][(phase = "running" /\ phase' = "running")
          => (/\ \A r \in 1..MaxReqs :
                    (reqs[r].pc = "free" /\ reqs'[r].pc = "started")
                        => (cur # 0 /\ reqs'[r].origin = tabs[cur].w)
              /\ \A i, j \in 1..Len(tabs') : tabs'[i].w = tabs'[j].w => i = j
              /\ Delivers
                    => (/\ Len(tabs') = Len(tabs)
                        /\ \A i \in 1..Len(tabs) :
                              tabs'[i] # tabs[i]
                                 => tabs[i].w = reqs[Head(idleq)].origin))]_vars

\* A result is about to be delivered; since its request started, its tab has
\* moved from second to first place, another tab was opened and is current.
C28_Witness ==
    /\ phase = "running"
    /\ idleq # <<>>
    /\ Len(tabs) = 2
    /\ cur = 2
    /\ tabs[1].w = reqs[Head(idleq)].origin
    /\ tabs[1].label = 2
    /\ reqs[Head(idleq)].output # <<>>
    /\ tabs[1].output = <<>>

\* Every result a worker thread can post, and the text each is rendered to.
PostableResults ==
    {run_result(res) : res \in ChildResults \cup RouteResults \cup ExecResults}
    \cup {pip_result(res, p) : res \in ChildResults \cup RouteResults \cup ExecResults, p \in FsExecs \cup {SysPython3, SysPython}}
    \cup {timeout_result(k, out) : k \in {"run", "pip"}, out \in PartialOutputs}
    \cup {[output |-> <<>>, error |-> e] :
             e \in {ErrNotFound(p) : p \in FsExecs \cup {SysPython3, SysPython}}
                   \cup {ErrExecuting("run"), ErrExecuting("pip")}}

\* The whole values an output pane can be given by one set_text call.
WholePaneValues ==
    {<<>>, PipRunningText}
    \cup {ErrInvalidInterpreter(m) : m \in Markers}
    \cup {PipInvalidText(m) : m \in Markers}
    \cup {full_output(x.output, x.error) : x \in PostableResults}

\* C29: an output pane always holds one whole value: empty, the "Running
\* pip freeze..." placeholder, an interpreter-error message or the complete
\* rendering of one result, never parts of two results.
C29_PaneHoldsOneWholeValue ==
    phase = "running" =>
        \A i \in 1..Len(tabs) : tabs[i].output \in WholePaneValues

\* Two executions of one tab overlapped: the pane shows the rendering of the
\* first while the result of the second, a different one, waits for delivery.
C29_Witness ==
    /\ phase = "running"
    /\ Len(idleq) = 1
    /\ cur # 0
    /\ tabs[cur].w = reqs[Head(idleq)].origin
    /\ tabs[cur].output \notin {<<>>, PipRunningText}
    /\ tabs[cur].output # full_output(reqs[Head(idleq)].output, reqs[Head(idleq)].error)

====
